---- MODULE Spec2Model ----
(***************************************************************************)
(* A model of math/complex_numbers.cpp (class Complex, its free operators  *)
(* and its self-test) and of the Kirchhoff voltage-law check.              *)
(*                                                                         *)
(* The members of Complex are C++ doubles.  The model keeps the structure  *)
(* of IEEE-754 binary arithmetic (signed zeros, gradual underflow, round   *)
(* to nearest with ties to even, overflow to infinity, NaN) in a format    *)
(* whose widths are the definitions Precision, FracBits and MaxExp, which  *)
(* are far smaller than binary64's 53, 1074 and 2045.  A finite value is   *)
(* a sign and a magnitude counted in units of the smallest subnormal,      *)
(* 2^-FracBits.                                                            *)
(*                                                                         *)
(* The source writes other.real_ (the getter, without the call) where it   *)
(* reads the other operand's real part; the model reads the member.        *)
(***************************************************************************)
EXTENDS Integers, Sequences, FiniteSets, TLC

VARIABLES
    \* class Complex: the objects of one expression evaluation
    num1, num2, result, tmp, tmpValid, self, other, thrown,
    dret, aret, bret, os, trace,
    \* voltage_law_satisfied
    T, voltages, satisfied, kpc,
    \* tests()
    pc, x1, y1, x2, y2, tresult, stdout

cvars == <<num1, num2, result, tmp, tmpValid, self, other, thrown,
           dret, aret, bret, os, trace>>
kvars == <<T, voltages, satisfied, kpc>>
tvars == <<pc, x1, y1, x2, y2, tresult, stdout>>
vars == <<cvars, kvars, tvars>>

-----------------------------------------------------------------------------
(* The floating-point format.                                              *)

Precision == 3    \* bits of the significand
FracBits == 2     \* 1.0 is 2^FracBits units
MaxExp == 4       \* the largest finite magnitude is (2^Precision - 1) * 2^MaxExp units

RECURSIVE Pow2(_)
Pow2(n) == IF n = 0 THEN 1 ELSE 2 * Pow2(n - 1)

One == Pow2(FracBits)
MaxFinite == (Pow2(Precision) - 1) * Pow2(MaxExp)

AbsInt(i) == IF i < 0 THEN -i ELSE i

Fin(neg, mag) == [kind |-> "fin", neg |-> neg, mag |-> mag]
Inf(neg) == [kind |-> "inf", neg |-> neg, mag |-> 0]
NaN == [kind |-> "nan", neg |-> FALSE, mag |-> 0]
Zero == Fin(FALSE, 0)
NegZero == Fin(TRUE, 0)
\* the double nearest to the integer literal i (exact for the literals used)
Lit(i) == Fin(i < 0, AbsInt(i) * One)

IsNaN(x) == x.kind = "nan"
IsZeroF(x) == x.kind = "fin" /\ x.mag = 0

\* the spacing of the format at the rational n/d (in units): 1 below 2^Precision
RECURSIVE Ulp(_, _, _)
Ulp(n, d, s) == IF n < Pow2(Precision) * s * d THEN s ELSE Ulp(n, d, 2 * s)

Representable(m) == m \in 0..MaxFinite /\ m % Ulp(m, 1, 1) = 0
FiniteMags == {m \in 0..MaxFinite : Representable(m)}

\* n/d units rounded to nearest, ties to even
RoundMag(n, d) ==
    LET s == Ulp(n, d, 1)
        q == n \div (d * s)
        r == n % (d * s)
        up == 2 * r > d * s \/ (2 * r = d * s /\ q % 2 = 1)
    IN  (IF up THEN q + 1 ELSE q) * s

Round(neg, n, d) ==
    LET m == RoundMag(n, d)
    IN  IF m > MaxFinite THEN Inf(neg) ELSE Fin(neg, m)

\* x * y
FMul(x, y) ==
    IF IsNaN(x) \/ IsNaN(y) THEN NaN
    ELSE IF (x.kind = "inf" /\ IsZeroF(y)) \/ (IsZeroF(x) /\ y.kind = "inf") THEN NaN
    ELSE IF x.kind = "inf" \/ y.kind = "inf" THEN Inf(x.neg # y.neg)
    ELSE Round(x.neg # y.neg, x.mag * y.mag, One)

\* x / y
FDiv(x, y) ==
    IF IsNaN(x) \/ IsNaN(y) THEN NaN
    ELSE IF x.kind = "inf" /\ y.kind = "inf" THEN NaN
    ELSE IF IsZeroF(x) /\ IsZeroF(y) THEN NaN
    ELSE IF x.kind = "inf" THEN Inf(x.neg # y.neg)
    ELSE IF y.kind = "inf" THEN Fin(x.neg # y.neg, 0)
    ELSE IF IsZeroF(y) THEN Inf(x.neg # y.neg)
    ELSE Round(x.neg # y.neg, x.mag * One, y.mag)

\* -x
FNeg(x) == IF IsNaN(x) THEN NaN ELSE [x EXCEPT !.neg = ~x.neg]

Signed(x) == IF x.neg THEN -x.mag ELSE x.mag

\* x + y
FAdd(x, y) ==
    IF IsNaN(x) \/ IsNaN(y) THEN NaN
    ELSE IF x.kind = "inf" /\ y.kind = "inf"
         THEN (IF x.neg = y.neg THEN x ELSE NaN)
    ELSE IF x.kind = "inf" THEN x
    ELSE IF y.kind = "inf" THEN y
    ELSE LET s == Signed(x) + Signed(y)
         IN  IF s = 0 THEN Fin(x.neg /\ y.neg, 0)
             ELSE Round(s < 0, AbsInt(s), 1)

\* x - y
FSub(x, y) == FAdd(x, FNeg(y))

\* x == y
FEq(x, y) ==
    /\ ~IsNaN(x) /\ ~IsNaN(y)
    /\ \/ IsZeroF(x) /\ IsZeroF(y)
       \/ x = y

\* x < y
FLt(x, y) ==
    /\ ~IsNaN(x) /\ ~IsNaN(y)
    /\ ~FEq(x, y)
    /\ \/ x.kind = "inf" /\ x.neg
       \/ y.kind = "inf" /\ ~y.neg
       \/ x.kind = "fin" /\ y.kind = "fin" /\ Signed(x) < Signed(y)

\* std::sqrt, correctly rounded
FSqrt(x) ==
    IF IsNaN(x) THEN NaN
    ELSE IF IsZeroF(x) THEN x
    ELSE IF x.neg THEN NaN
    ELSE IF x.kind = "inf" THEN x
    ELSE LET sq == x.mag * One    \* the root, squared, in units squared
             below == {m \in FiniteMags : m * m <= sq}
             lo == CHOOSE m \in below : \A k \in below : k <= m
             above == {m \in FiniteMags : m > lo}
         IN  IF lo * lo = sq \/ above = {} THEN Fin(FALSE, lo)
             ELSE LET hi == CHOOSE m \in above : \A k \in above : m <= k
                  IN  IF 4 * sq < (lo + hi) * (lo + hi) THEN Fin(FALSE, lo)
                      ELSE Fin(FALSE, hi)

\* std::atan2(y, x): the exact special values, and otherwise the open
\* quadrant the angle lies in; the sign of the result is the sign of y
Angle(neg, a) == [neg |-> neg, angle |-> a]
NoAngle == Angle(FALSE, "none")
Atan2(y, x) ==
    IF IsNaN(x) \/ IsNaN(y) THEN Angle(FALSE, "nan")
    ELSE IF IsZeroF(y) THEN Angle(y.neg, IF x.neg THEN "pi" ELSE "0")
    ELSE IF IsZeroF(x) THEN Angle(y.neg, "pi/2")
    ELSE IF y.kind = "inf" /\ x.kind = "inf"
         THEN Angle(y.neg, IF x.neg THEN "3pi/4" ELSE "pi/4")
    ELSE IF y.kind = "inf" THEN Angle(y.neg, "pi/2")
    ELSE IF x.kind = "inf" THEN Angle(y.neg, IF x.neg THEN "pi" ELSE "0")
    ELSE Angle(y.neg, IF x.neg THEN "(pi/2,pi)" ELSE "(0,pi/2)")

-----------------------------------------------------------------------------
(* class Complex.  A method is a function of the receiver (and argument)   *)
(* to their values after the call and the value returned.                  *)

\* Complex(x, y), is_polar == false
Complex(x, y) == [real |-> x, imaginary |-> y]

UnaryCall(me, ret) == [self |-> me, ret |-> ret, threw |-> FALSE]
BinaryCall(me, arg2, ret) ==
    [self |-> me, other |-> arg2, ret |-> ret, threw |-> FALSE]

real_(me) == UnaryCall(me, me.real)

imag_(me) == UnaryCall(me, me.imaginary)

abs(me) ==
    UnaryCall(me, FSqrt(FAdd(FMul(me.real, me.real),
                             FMul(me.imaginary, me.imaginary))))

arg(me) == UnaryCall(me, Atan2(me.imaginary, me.real))

\* operator+ with the real member read where the imaginary one is meant
operator_plus_real_twice(me, arg2) ==
    BinaryCall(me, arg2, Complex(FAdd(me.real, arg2.real),
                                 FAdd(me.real, arg2.imaginary)))

operator_plus(me, arg2) ==
    BinaryCall(me, arg2, Complex(FAdd(me.real, arg2.real),
                                 FAdd(me.imaginary, arg2.imaginary)))

operator_minus(me, arg2) ==
    BinaryCall(me, arg2, Complex(FSub(me.real, arg2.real),
                                 FSub(me.imaginary, arg2.imaginary)))

\* operator* with the sign of the second product of the real part flipped
operator_times_plus(me, arg2) ==
    BinaryCall(me, arg2,
        Complex(FAdd(FMul(me.real, arg2.real), FMul(me.imaginary, arg2.imaginary)),
                FAdd(FMul(me.real, arg2.imaginary), FMul(me.imaginary, arg2.real))))

operator_times(me, arg2) ==
    BinaryCall(me, arg2,
        Complex(FSub(FMul(me.real, arg2.real), FMul(me.imaginary, arg2.imaginary)),
                FAdd(FMul(me.real, arg2.imaginary), FMul(me.imaginary, arg2.real))))

\* operator~ negating the receiver's own member before it copies
operator_tilde_in_place(me) ==
    UnaryCall(Complex(me.real, FNeg(me.imaginary)),
              Complex(me.real, FNeg(me.imaginary)))

\* operator~ negating the real member
operator_tilde_real(me) == UnaryCall(me, Complex(FNeg(me.real), me.imaginary))

operator_tilde(me) == UnaryCall(me, Complex(me.real, FNeg(me.imaginary)))

operator_div(me, arg2) ==
    LET denominator == FAdd(FMul(arg2.real, arg2.real),
                            FMul(arg2.imaginary, arg2.imaginary))
    IN  IF FEq(denominator, Zero)
        THEN [self |-> me, other |-> arg2, ret |-> Complex(Zero, Zero),
              threw |-> TRUE]
        ELSE LET numerator == operator_times(me, operator_tilde(arg2).ret).ret
             IN  BinaryCall(me, arg2,
                     Complex(FDiv(real_(numerator).ret, denominator),
                             FDiv(imag_(numerator).ret, denominator)))

operator_assign(me, arg2) ==
    LET assigned == Complex(real_(arg2).ret, imag_(arg2).ret)
    IN  BinaryCall(assigned, arg2, assigned)

\* bool operator==(a, b)
operator_eq(a, b) ==
    BinaryCall(a, b, FEq(real_(a).ret, real_(b).ret)
                     /\ FEq(imag_(a).ret, imag_(b).ret))

-----------------------------------------------------------------------------
(* operator<<: the text of a double under the stream's default format     *)
(* (%g, six significant digits): a minus sign when the sign bit is set,    *)
(* the integer part and the fraction digits of the magnitude.  Every       *)
(* finite value of the format has at most six significant digits, so the   *)
(* text is exact.                                                          *)

RECURSIVE FracDigits(_)
FracDigits(rem) ==
    IF rem = 0 THEN <<>>
    ELSE <<(rem * 10) \div One>> \o FracDigits((rem * 10) % One)

NoText == [kind |-> "none", minus |-> FALSE, int |-> 0, frac |-> <<>>]
DoubleText(x) ==
    IF x.kind = "fin"
    THEN [kind |-> "fin", minus |-> x.neg, int |-> x.mag \div One,
          frac |-> FracDigits(x.mag % One)]
    ELSE [kind |-> x.kind, minus |-> x.neg, int |-> 0, frac |-> <<>>]

NoOutput == [open |-> "", re |-> NoText, sign |-> "", im |-> NoText, close |-> ""]

\* std::ostream &operator<<(std::ostream &os, const Complex &num)
operator_insert(num) ==
    UnaryCall(num,
        IF FLt(imag_(num).ret, Zero)
        THEN [open |-> "(", re |-> DoubleText(real_(num).ret), sign |-> " - ",
              im |-> DoubleText(FNeg(imag_(num).ret)), close |-> "i)"]
        ELSE [open |-> "(", re |-> DoubleText(real_(num).ret), sign |-> " + ",
              im |-> DoubleText(imag_(num).ret), close |-> "i)"])

-----------------------------------------------------------------------------
(* Calls on Complex objects.  num1 and num2 are the operands and result    *)
(* the object assigned to, as in tests(); tmp is the temporary the last    *)
(* operator returned.  The first call of an expression has num1 as its     *)
(* receiver, every later one the temporary.  self and other are the        *)
(* receiver and the argument as the call left them.                        *)

MaxCalls == 3     \* calls in one expression

Tiny == Fin(FALSE, 1)
Huge == Fin(FALSE, MaxFinite)

Num1Parts == {Zero, NegZero, Lit(1), Tiny, Huge, NaN}
Num1Inputs ==
    {Complex(x, y) : x \in Num1Parts, y \in Num1Parts}
    \cup {Complex(Lit(1), Lit(2)), Complex(Lit(3), Lit(-4)), Complex(Lit(3), Lit(4)),
          Complex(Lit(-1), Lit(2)), Complex(Inf(FALSE), Lit(1))}
Num2Inputs ==
    {Complex(Zero, Zero), Complex(NegZero, Zero), Complex(Lit(1), Zero),
     Complex(Zero, Lit(1)), Complex(Lit(1), Lit(1)), Complex(Lit(3), Lit(4)),
     Complex(Lit(2), Lit(-1)), Complex(Tiny, Zero), Complex(Tiny, Tiny),
     Complex(Huge, Lit(1)), Complex(Zero, NaN)}

InitKVL0 ==
    /\ T = "double" /\ voltages = <<>> /\ satisfied = FALSE /\ kpc = "off"
InitTests0 ==
    /\ pc = "off" /\ x1 = 0 /\ y1 = 0 /\ x2 = 0 /\ y2 = 0
    /\ tresult = [real |-> 0, imaginary |-> 0, scale |-> 1]
    /\ stdout = <<>>

InitComplex0 ==
    /\ result = Complex(Zero, Zero)     \* Complex result;
    /\ tmp = Complex(Zero, Zero) /\ tmpValid = FALSE
    /\ self = Complex(Zero, Zero) /\ other = Complex(Zero, Zero)
    /\ thrown = "none"
    /\ dret = Zero /\ aret = NoAngle /\ bret = FALSE /\ os = NoOutput
    /\ trace = <<>>

Init ==
    /\ num1 \in Num1Inputs
    /\ num2 \in Num2Inputs
    /\ InitComplex0
    /\ InitKVL0
    /\ InitTests0

Recv == IF trace = <<>> THEN "num1" ELSE "tmp"
Obj(name) ==
    CASE name = "num1" -> num1
      [] name = "num2" -> num2
      [] name = "result" -> result
      [] OTHER -> tmp

CanCall ==
    /\ thrown = "none"
    /\ Len(trace) < MaxCalls
    /\ trace # <<>> => tmpValid

Entry(op, recv, arg2) == [op |-> op, recv |-> recv, arg |-> arg2]

\* the objects after a call of a method of the receiver r with argument a
\* ("none" for a unary call), which left them as me and arg2
WriteBack(r, a, me, arg2) ==
    /\ self' = me
    /\ other' = IF a = "none" THEN other ELSE arg2
    /\ num1' = IF r = "num1" THEN me ELSE IF a = "num1" THEN arg2 ELSE num1
    /\ num2' = IF a = "num2" THEN arg2 ELSE num2
    /\ result' = IF r = "result" THEN me ELSE result

\* a call that returns a Complex temporary (or throws)
ReturnsComplex(op, r, a, m) ==
    /\ WriteBack(r, a, m.self, IF a = "none" THEN m.self ELSE m.other)
    /\ trace' = Append(trace, Entry(op, r, a))
    /\ thrown' = IF m.threw THEN "DivisionByZero" ELSE "none"
    /\ tmp' = IF m.threw THEN tmp ELSE m.ret
    /\ tmpValid' = ~m.threw
    /\ UNCHANGED <<dret, aret, bret, os, kvars, tvars>>

\* a call that returns something else: no temporary is left to call a
\* method of, and the expression ends
Returns(op, r, a, me, arg2) ==
    /\ WriteBack(r, a, me, arg2)
    /\ trace' = Append(trace, Entry(op, r, a))
    /\ tmp' = IF r = "tmp" THEN me ELSE IF a = "tmp" THEN arg2 ELSE tmp
    /\ tmpValid' = FALSE
    /\ UNCHANGED <<thrown, kvars, tvars>>

Addition ==
    /\ CanCall
    /\ ReturnsComplex("+", Recv, "num2", operator_plus(Obj(Recv), num2))

Subtraction ==
    /\ CanCall
    /\ ReturnsComplex("-", Recv, "num2", operator_minus(Obj(Recv), num2))

Multiplication ==
    /\ CanCall
    /\ ReturnsComplex("*", Recv, "num2", operator_times(Obj(Recv), num2))

Division ==
    /\ CanCall
    /\ ReturnsComplex("/", Recv, "num2", operator_div(Obj(Recv), num2))

Conjugate ==
    /\ CanCall
    /\ ReturnsComplex("~", Recv, "none", operator_tilde(Obj(Recv)))

AbsoluteValue ==
    /\ CanCall
    /\ LET m == abs(Obj(Recv))
       IN  /\ Returns("abs", Recv, "none", m.self, m.self)
           /\ dret' = m.ret
    /\ UNCHANGED <<aret, bret, os>>

Argument ==
    /\ CanCall
    /\ LET m == arg(Obj(Recv))
       IN  /\ Returns("arg", Recv, "none", m.self, m.self)
           /\ aret' = m.ret
    /\ UNCHANGED <<dret, bret, os>>

Getter ==
    /\ CanCall
    /\ \E g \in {"real_", "imag_"} :
         LET m == IF g = "real_" THEN real_(Obj(Recv)) ELSE imag_(Obj(Recv))
         IN  /\ Returns(g, Recv, "none", m.self, m.self)
             /\ dret' = m.ret
    /\ UNCHANGED <<aret, bret, os>>

\* result = <the receiver of the expression so far>
Assignment ==
    /\ CanCall
    /\ LET m == operator_assign(result, Obj(Recv))
       IN  Returns("=", "result", Recv, m.self, m.other)
    /\ UNCHANGED <<dret, aret, bret, os>>

\* num1 == num2 at the start of an expression, <temporary> == num1 after
Equality ==
    /\ CanCall
    /\ LET a == IF Recv = "num1" THEN "num2" ELSE "num1"
           m == operator_eq(Obj(Recv), Obj(a))
       IN  /\ Returns("==", Recv, a, m.self, m.other)
           /\ bret' = m.ret
    /\ UNCHANGED <<dret, aret, os>>

Insertion ==
    /\ CanCall
    /\ LET m == operator_insert(Obj(Recv))
       IN  /\ Returns("<<", Recv, "none", m.self, m.self)
           /\ os' = m.ret
    /\ UNCHANGED <<dret, aret, bret>>

Next ==
    \/ Addition
    \/ Subtraction
    \/ Multiplication
    \/ Division
    \/ Conjugate
    \/ AbsoluteValue
    \/ Argument
    \/ Getter
    \/ Assignment
    \/ Equality
    \/ Insertion

Spec == Init /\ [][Next]_vars

-----------------------------------------------------------------------------
(* physics::kirchhoff_law::voltage_law_satisfied<T>.  A voltage is a whole *)
(* number of units: volts for T = int, 2^-21 V for T = double, so that     *)
(* every input and every partial sum below is an exact double.             *)

MaxLen == 3       \* voltages in a loop
MaxVolt == 2      \* largest magnitude of an enumerated voltage, in units

TolNum == 1
TolDen == 1000000                     \* the literal 1e-6 is TolNum / TolDen
VoltUnit(t) == IF t = "int" THEN 1 ELSE Pow2(21)    \* units in one volt

Types == {"int", "double"}

RECURSIVE accumulate(_, _)
accumulate(v, init) ==
    IF v = <<>> THEN init ELSE accumulate(Tail(v), init + Head(v))

\* abs(sum) < static_cast<T>(1e-6): the cast truncates toward zero for int;
\* for double, sum < TolNum * unit / TolDen on whole numbers of units
voltage_law_satisfied(t, v) ==
    LET sum == accumulate(v, 0)
    IN  IF t = "int"
        THEN AbsInt(sum) < TolNum \div TolDen
        ELSE AbsInt(sum) <= (TolNum * VoltUnit(t) - 1) \div TolDen

RECURSIVE SeqsUpTo(_, _)
SeqsUpTo(S, n) ==
    IF n = 0 THEN {<<>>}
    ELSE LET shorter == SeqsUpTo(S, n - 1)
         IN  shorter \cup {Append(q, e) : q \in shorter, e \in S}

Scaled(t, v) == [i \in 1..Len(v) |-> v[i] * VoltUnit(t)]
BalancedLoop == <<10, -4, -6>>        \* voltages1, in volts
UnbalancedLoop == <<12, -5, -4>>      \* voltages2, in volts

Loops(t) ==
    SeqsUpTo((-MaxVolt)..MaxVolt, MaxLen)
    \cup {Scaled(t, BalancedLoop), Scaled(t, UnbalancedLoop)}

InitKVL ==
    /\ \/ /\ kpc = "call"
          /\ T \in Types
          /\ voltages \in Loops(T)
       \/ /\ kpc = "test1"
          /\ T = "double"
          /\ voltages = <<>>
    /\ satisfied = FALSE
    /\ num1 = Complex(Zero, Zero) /\ num2 = Complex(Zero, Zero)
    /\ InitComplex0
    /\ InitTests0

\* a call of voltage_law_satisfied<T>(voltages)
Call ==
    /\ kpc = "call"
    /\ satisfied' = voltage_law_satisfied(T, voltages)
    /\ kpc' = "returned"
    /\ UNCHANGED <<T, voltages, cvars, tvars>>

\* test(), case 1: assert(result1 == true)
TestBalanced ==
    /\ kpc = "test1"
    /\ voltages' = Scaled("double", BalancedLoop)
    /\ satisfied' = voltage_law_satisfied("double", voltages')
    /\ kpc' = IF satisfied' = TRUE THEN "test2" ELSE "aborted"
    /\ UNCHANGED <<T, cvars, tvars>>

\* test(), case 2: assert(result2 == false)
TestUnbalanced ==
    /\ kpc = "test2"
    /\ voltages' = Scaled("double", UnbalancedLoop)
    /\ satisfied' = voltage_law_satisfied("double", voltages')
    /\ kpc' = IF satisfied' = FALSE THEN "passed" ELSE "aborted"
    /\ UNCHANGED <<T, cvars, tvars>>

NextKVL ==
    \/ Call
    \/ TestBalanced
    \/ TestUnbalanced

SpecKVL == InitKVL /\ [][NextKVL]_vars

-----------------------------------------------------------------------------
(* get_rand() and tests().  get_rand returns (k - 50) / 100.0 for          *)
(* k = rand() % 100; the model keeps the numerator k - 50, so a value is   *)
(* a whole number of hundredths and tresult is real/scale, imaginary/scale.*)
(* On these values the denominator of operator/ is a sum of squares of     *)
(* multiples of 0.01, which is 0.0 exactly when both are 0.                *)

RandSpan == 2     \* the outcomes of std::rand() tried around 50
RandMod == 100
RandShift == 50
RandScale == 100

RandValues ==
    ((RandShift - RandSpan)..(RandShift + RandSpan))
    \cup {0, RandMod - 1, RandMod + RandShift}

\* the numerator of get_rand() when std::rand() returns r
get_rand(r) == (r % RandMod) - RandShift

Rational(re, im, scale) == [real |-> re, imaginary |-> im, scale |-> scale]

\* close(a, b) for exact quotients a = n1/d1 and b = n2/d2 that are compared
\* only when equal as rationals: their doubles differ by far less than 1e-9
close(n1, d1, n2, d2) == n1 * d2 = n2 * d1

InitTests ==
    /\ pc = "x1" /\ x1 = 0 /\ y1 = 0 /\ x2 = 0 /\ y2 = 0
    /\ tresult = Rational(0, 0, 1)
    /\ stdout = <<>>
    /\ num1 = Complex(Zero, Zero) /\ num2 = Complex(Zero, Zero)
    /\ InitComplex0
    /\ InitKVL0

\* double x1 = get_rand(), y1 = get_rand(); double x2 = get_rand(), y2 = get_rand();
GetRand ==
    /\ pc \in {"x1", "y1", "x2", "y2"}
    /\ \E r \in RandValues :
         /\ x1' = IF pc = "x1" THEN get_rand(r) ELSE x1
         /\ y1' = IF pc = "y1" THEN get_rand(r) ELSE y1
         /\ x2' = IF pc = "x2" THEN get_rand(r) ELSE x2
         /\ y2' = IF pc = "y2" THEN get_rand(r) ELSE y2
    /\ pc' = CASE pc = "x1" -> "y1" [] pc = "y1" -> "x2" [] pc = "x2" -> "y2"
               [] OTHER -> "Addition"
    /\ UNCHANGED <<tresult, stdout, cvars, kvars>>

\* one block of tests(): result = r; the two asserts against expected = e
\* (the std::complex value); the message; then the next block
Block(r, e, message, next) ==
    /\ tresult' = r
    /\ IF close(r.real, r.scale, e.real, e.scale)
          /\ close(r.imaginary, r.scale, e.imaginary, e.scale)
       THEN /\ stdout' = Append(stdout, message)
            /\ pc' = next
       ELSE /\ stdout' = stdout
            /\ pc' = "aborted"
    /\ UNCHANGED <<x1, y1, x2, y2, cvars, kvars>>

TestAddition ==
    /\ pc = "Addition"
    /\ Block(Rational(x1 + x2, y1 + y2, RandScale),
             Rational(x1 + x2, y1 + y2, RandScale),
             "Addition test passed", "Subtraction")

TestSubtraction ==
    /\ pc = "Subtraction"
    /\ Block(Rational(x1 - x2, y1 - y2, RandScale),
             Rational(x1 - x2, y1 - y2, RandScale),
             "Subtraction test passed", "Multiplication")

TestMultiplication ==
    /\ pc = "Multiplication"
    /\ Block(Rational(x1 * x2 - y1 * y2, x1 * y2 + y1 * x2, RandScale * RandScale),
             Rational(x1 * x2 - y1 * y2, x1 * y2 + y1 * x2, RandScale * RandScale),
             "Multiplication test passed", "Division")

\* result = num1 / num2: operator/ throws std::invalid_argument when the
\* denominator is 0.0; nothing catches it, and the program terminates
TestDivision ==
    /\ pc = "Division"
    /\ LET denominator == x2 * x2 + y2 * y2
           numerator == Rational(x1 * x2 + y1 * y2, y1 * x2 - x1 * y2,
                                 RandScale * RandScale)
       IN  IF denominator = 0
           THEN /\ pc' = "terminated"
                /\ UNCHANGED <<tresult, stdout, x1, y1, x2, y2, cvars, kvars>>
           ELSE Block(Rational(numerator.real, numerator.imaginary, denominator),
                      Rational(x1 * x2 + y1 * y2, y1 * x2 - x1 * y2,
                               x2 * x2 + y2 * y2),
                      "Division test passed", "Conjugate")

TestConjugate ==
    /\ pc = "Conjugate"
    /\ Block(Rational(x1, -y1, RandScale), Rational(x1, -y1, RandScale),
             "Conjugate test passed", "Argument")

\* num1.arg() and std::arg(cnum1) are the same std::atan2(y1, x1);
\* num1.abs() and std::abs(cnum1) agree to the last digits
TestArgument ==
    /\ pc = "Argument"
    /\ stdout' = Append(stdout, "Argument test passed")
    /\ pc' = "Absolute value"
    /\ UNCHANGED <<tresult, x1, y1, x2, y2, cvars, kvars>>

TestAbsoluteValue ==
    /\ pc = "Absolute value"
    /\ stdout' = stdout \o <<"Absolute value test passed",
                             "All tests passed successfully">>
    /\ pc' = "done"
    /\ UNCHANGED <<tresult, x1, y1, x2, y2, cvars, kvars>>

NextTests ==
    \/ GetRand
    \/ TestAddition
    \/ TestSubtraction
    \/ TestMultiplication
    \/ TestDivision
    \/ TestConjugate
    \/ TestArgument
    \/ TestAbsoluteValue

SpecTests == InitTests /\ [][NextTests]_vars

-----------------------------------------------------------------------------
(* Properties.                                                             *)

OpsOf == [i \in 1..Len(trace) |-> trace[i].op]
LastCall == trace[Len(trace)]
IsZeroValue(c) == IsZeroF(c.real) /\ IsZeroF(c.imaginary)
HasNaN(c) == IsNaN(c.real) \/ IsNaN(c.imaginary)
Finite(c) == c.real.kind = "fin" /\ c.imaginary.kind = "fin"
Magnitude(x) == [x EXCEPT !.neg = FALSE]

\* the exact product of finite a and b, in units squared
ExactRe(a, b) ==
    Signed(a.real) * Signed(b.real) - Signed(a.imaginary) * Signed(b.imaginary)
ExactIm(a, b) ==
    Signed(a.real) * Signed(b.imaginary) + Signed(a.imaginary) * Signed(b.real)
\* the four partial products of a * b are values of the format
PartialsExact(a, b) ==
    \A p \in {a.real.mag * b.real.mag, a.imaginary.mag * b.imaginary.mag,
              a.real.mag * b.imaginary.mag, a.imaginary.mag * b.real.mag} :
        p % One = 0 /\ Representable(p \div One)
\* c is e2 / One up to the roundings of the two products p1, p2 and of the sum
WithinRounding(c, e2, p1, p2) ==
    2 * AbsInt(Signed(c) * One - e2)
        <= (Ulp(p1, One, 1) + Ulp(p2, One, 1) + Ulp(c.mag, 1, 1)) * One

\* C1: divide(a, b) signals DivisionByZero if and only if b is the zero
\* value (b.real == 0 and b.imag == 0), and a failure leaves no value.
C1_DivisionByZeroIffZeroDivisor ==
    OpsOf = <<"/">> =>
        /\ (thrown = "DivisionByZero") <=> IsZeroValue(num2)
        /\ thrown = "DivisionByZero" => ~tmpValid
        /\ ~IsZeroValue(num2) => tmpValid

\* C2 as stated: every call, operator= included, leaves the receiver and the
\* argument with the components they had before it.
C2_NoMethodMutates ==
    [][trace' # trace =>
         LET e == trace'[Len(trace')]
         IN  /\ self' = Obj(e.recv)
             /\ e.arg # "none" => other' = Obj(e.arg)
             /\ num1' = num1 /\ num2' = num2 /\ result' = result]_vars

\* C2 amended: every call other than operator= leaves the receiver and the
\* argument as they were, also when operator/ throws; operator= leaves its
\* argument as it was and gives the receiver the argument's components.
C2_OnlyAssignmentMutates ==
    [][trace' # trace =>
         LET e == trace'[Len(trace')]
         IN  /\ e.arg # "none" => other' = Obj(e.arg)
             /\ num1' = num1 /\ num2' = num2
             /\ IF e.op = "="
                THEN self' = Obj(e.arg) /\ result' = Obj(e.arg)
                ELSE self' = Obj(e.recv) /\ result' = result]_vars

\* operator= has overwritten a receiver that held other components
C2_Witness ==
    /\ trace # <<>>
    /\ LastCall.op = "=" /\ LastCall.arg = "tmp"
    /\ result = tmp /\ result # Complex(Zero, Zero)

\* C3: for all a and every nonzero b, divide(a, b) returns
\* (n.real / denom, n.imag / denom) with n = multiply(a, conjugate(b)) and
\* denom = b.real^2 + b.imag^2; divide((1,0), (0,1)) == (0,-1).
C3_DivideReturnsQuotient ==
    (OpsOf = <<"/">> /\ ~IsZeroValue(num2)) =>
        LET n == operator_times(num1, operator_tilde(num2).ret).ret
            denom == FAdd(FMul(num2.real, num2.real),
                          FMul(num2.imaginary, num2.imaginary))
        IN  /\ thrown = "none" /\ tmpValid
            /\ tmp = Complex(FDiv(n.real, denom), FDiv(n.imaginary, denom))
            /\ (num1 = Complex(Lit(1), Zero) /\ num2 = Complex(Zero, Lit(1)))
                   => operator_eq(tmp, Complex(Zero, Lit(-1))).ret

\* C4: for all finite a and b whose product is finite, multiply(a, b) is
\* (a.real*b.real - a.imag*b.imag, a.real*b.imag + a.imag*b.real) up to
\* the roundings of the three operations of each component, and exactly
\* that when the partial products and it are values of the format;
\* multiply((1,2), (3,4)) is (-5, 10).
C4_MultiplyIsComplexProduct ==
    (OpsOf = <<"*">> /\ Finite(num1) /\ Finite(num2)) =>
        /\ tmp.real.kind = "fin" =>
               WithinRounding(tmp.real, ExactRe(num1, num2),
                              num1.real.mag * num2.real.mag,
                              num1.imaginary.mag * num2.imaginary.mag)
        /\ tmp.imaginary.kind = "fin" =>
               WithinRounding(tmp.imaginary, ExactIm(num1, num2),
                              num1.real.mag * num2.imaginary.mag,
                              num1.imaginary.mag * num2.real.mag)
        /\ (PartialsExact(num1, num2)
            /\ Representable(AbsInt(ExactRe(num1, num2)) \div One))
               => Signed(tmp.real) * One = ExactRe(num1, num2)
        /\ (PartialsExact(num1, num2)
            /\ Representable(AbsInt(ExactIm(num1, num2)) \div One))
               => Signed(tmp.imaginary) * One = ExactIm(num1, num2)
        /\ (num1 = Complex(Lit(1), Lit(2)) /\ num2 = Complex(Lit(3), Lit(4)))
               => tmp = Complex(Lit(-5), Lit(10))

C4_Witness ==
    /\ OpsOf = <<"*">>
    /\ num1 = Complex(Lit(1), Lit(2)) /\ num2 = Complex(Lit(3), Lit(4))
    /\ tmp = Complex(Lit(-5), Lit(10))

\* C5: for all a and every nonzero b, divide(a, b) returns a quotient, and
\* multiply(divide(a, b), b) equals a when the arithmetic is exact.
C5_DivideThenMultiplyIsIdentity ==
    (OpsOf = <<"/">> /\ ~IsZeroValue(num2) /\ ~HasNaN(num1) /\ ~HasNaN(num2)) =>
        /\ thrown = "none" /\ tmpValid
        /\ (/\ Finite(tmp) /\ Finite(num1) /\ Finite(num2)
            /\ PartialsExact(tmp, num2)
            /\ ExactRe(tmp, num2) = Signed(num1.real) * One
            /\ ExactIm(tmp, num2) = Signed(num1.imaginary) * One)
               => operator_eq(operator_times(tmp, num2).ret, num1).ret

\* C7 as stated: for all a, add(a, fromRectangular(0,0)) == a.
C7_AdditiveIdentity ==
    (OpsOf = <<"+", "==">> /\ num2 = Complex(Zero, Zero)) => bret

\* C7 amended: add is the componentwise sum (exactly, when the sum is a
\* value of the format), and for all a with no NaN component,
\* add(a, fromRectangular(0,0)) == a.
C7_AdditiveIdentityWithoutNaN ==
    /\ (OpsOf = <<"+">> /\ Finite(num1) /\ Finite(num2)) =>
           /\ Representable(AbsInt(Signed(num1.real) + Signed(num2.real)))
                  => Signed(tmp.real) = Signed(num1.real) + Signed(num2.real)
           /\ Representable(AbsInt(Signed(num1.imaginary) + Signed(num2.imaginary)))
                  => Signed(tmp.imaginary)
                         = Signed(num1.imaginary) + Signed(num2.imaginary)
    /\ (OpsOf = <<"+", "==">> /\ num2 = Complex(Zero, Zero) /\ ~HasNaN(num1))
           => bret

\* a + (0,0) == a where a.real is -0.0 and the sum's real part is +0.0
C7_Witness ==
    /\ OpsOf = <<"+", "==">>
    /\ num2 = Complex(Zero, Zero)
    /\ num1 = Complex(NegZero, Lit(1))
    /\ self = Complex(Zero, Lit(1))
    /\ bret

\* C8 as stated: for all a, conjugate(conjugate(a)) == a.
C8_ConjugateInvolution ==
    OpsOf = <<"~", "~", "==">> => bret

\* C8 amended: conjugate(a) keeps the real component and flips the sign of
\* the imaginary one, and for all a with no NaN component,
\* conjugate(conjugate(a)) == a.
C8_ConjugateInvolutionWithoutNaN ==
    /\ OpsOf = <<"~">> =>
           /\ tmp.real = num1.real
           /\ Magnitude(tmp.imaginary) = Magnitude(num1.imaginary)
           /\ ~IsNaN(num1.imaginary) => tmp.imaginary.neg # num1.imaginary.neg
    /\ (OpsOf = <<"~", "~", "==">> /\ ~HasNaN(num1)) => bret

C8_Witness ==
    /\ OpsOf = <<"~", "~", "==">>
    /\ num1 = Complex(Lit(3), Lit(-4))
    /\ self = num1
    /\ bret

\* C9: the text is "(R + Ii)" or "(R - Ii)"; the sign is '-' exactly when
\* the imaginary component is negative and '+' otherwise, and the number
\* after the sign is the absolute value of the imaginary component, never
\* a negative number.
C9_FormatPrintsSignAndMagnitude ==
    (trace # <<>> /\ LastCall.op = "<<") =>
        /\ os.open = "(" /\ os.close = "i)"
        /\ os.re = DoubleText(self.real)
        /\ os.sign = (IF FLt(self.imaginary, Zero) THEN " - " ELSE " + ")
        /\ os.im = DoubleText(Magnitude(self.imaginary))
        /\ ~os.im.minus

\* C6: voltage_law_satisfied returns true when the algebraic sum of the
\* voltages is zero and false when it differs from zero by at least the
\* tolerance 1e-6, for every element type and every vector.
C6_VoltageLawDecided ==
    kpc = "returned" =>
        LET sum == accumulate(voltages, 0)
        IN  /\ sum = 0 => satisfied
            /\ AbsInt(sum) >= (TolNum * VoltUnit(T) + TolDen - 1) \div TolDen
                   => ~satisfied

\* C10: the divisor of the Division step of tests() is never zero, and
\* tests() never ends on an exception or a failed assert.
C10_TestsRunToCompletion ==
    /\ pc = "Division" => ~(x2 = 0 /\ y2 = 0)
    /\ pc \notin {"terminated", "aborted"}

====
